---- MODULE Spec2Model ----
(***************************************************************************)
(* mnexec, the Mininet execution utility: option parsing result, namespace *)
(* creation or attachment, the fork/wait lifecycle, the PID report, cgroup *)
(* join, mount remediation, RT scheduling and the final exec.              *)
(*                                                                         *)
(* A C int is modelled as the set of its one-bits (bit 31 is the sign), so *)
(* that |, & and the comparison with -1 are what they are in the code.     *)
(* The exits of the getopt loop itself (-v, -h, an unknown option) are not *)
(* modelled: Init is the state after the loop has consumed the options.    *)
(***************************************************************************)
EXTENDS Integers, Sequences, FiniteSets, TLC

VARIABLES
    opt,        \* the argument flags of main after the getopt loop
    pc,         \* position of each process in main
    flags,      \* main's local `flags`, per process
    dofork,     \* main's local `dofork`, per process
    detachtty,  \* main's local `detachtty`, per process
    pidOf,      \* kernel: pid of each process (0: no such process)
    pgid,       \* kernel: process group of each process
    sid,        \* kernel: session of each process
    fds,        \* kernel: open file descriptors of each process
    exitStatus, \* kernel: exit status of each process (NotExited while alive)
    ns,         \* attach(): loop position, accumulated flag, log of ns operations
    forkCalls,  \* number of fork() calls made
    out,        \* PID reports written to stdout, in order
    sessOps,    \* setsid()/setpgid() calls made, in order
    cg,         \* cgroup(): tasks files opened and the pids written
    mounts,     \* mount() calls made, in order
    sched,      \* sched_setscheduler() calls made
    execd,      \* the processes whose image was replaced by the command
    startLeader,\* kernel: was the launcher a process group leader when started
    unshares,   \* unshare() calls made, in order
    piper,      \* piper: the PID-relay caller, its child and their pipe
    fatal       \* per process: the fatal condition it ran into, if any

vars == <<opt, pc, flags, dofork, detachtty, pidOf, pgid, sid, fds, exitStatus,
          ns, forkCalls, out, sessOps, cg, mounts, sched, execd, startLeader,
          unshares, piper, fatal>>

launcherVars == <<opt, pc, flags, dofork, detachtty, pidOf, pgid, sid, fds, exitStatus,
                  ns, forkCalls, out, sessOps, cg, mounts, sched, execd, startLeader,
                  unshares, fatal>>

----------------------------------------------------------------------------
(* Bounds of the model *)

MaxPid == 120
MaxOpts == 3

----------------------------------------------------------------------------
(* C ints as sets of bits *)

IntBits == 0..31
Zero == {}
MinusOne == IntBits
IsNeg(x) == 31 \in x
BitOr(a, b) == a \cup b
BitAnd(a, b) == a \cap b
Truthy(x) == x # Zero

CLONE_NEWNS  == {17}
CLONE_NEWUTS == {26}
CLONE_NEWPID == {29}
CLONE_NEWNET == {30}

(* static struct namespace namespaces[] *)
namespaces == << [type |-> CLONE_NEWNET, name |-> "net"],
                 [type |-> CLONE_NEWPID, name |-> "pid"],
                 [type |-> CLONE_NEWUTS, name |-> "uts"],
                 [type |-> CLONE_NEWNS,  name |-> "mnt"] >>

NsLen == Len(namespaces)

----------------------------------------------------------------------------
(* Processes and kernel values *)

Procs == {"parent", "child"}
NotExited == 0 - 1
SIGSEGV == 139
OtherPgid == 2
OtherSid == 1
LauncherPid == MaxPid
ChildPids == {9, MaxPid + 1}
AttachPid == 44
InheritedFds == {0, 1, 2, 4}

Alnum == {"a", "b", "1"}
GroupNames == { <<"a", "/", "1">>, <<"a", ".", ".">> }
Controllers == <<"cpu", "cpuacct", "cpuset">>

----------------------------------------------------------------------------
(* The getopt loop of main: flags from the namespace options given *)

(* a getopt switch whose -n and -P do not imply the mount namespace *)
OptFlagWithoutImpliedMount(o) ==
    CASE o = "m" -> CLONE_NEWNS
      [] o = "n" -> CLONE_NEWNET
      [] o = "P" -> CLONE_NEWPID
      [] o = "u" -> CLONE_NEWUTS

OptFlag(o) ==
    CASE o = "m" -> CLONE_NEWNS
      [] o = "n" -> BitOr(CLONE_NEWNET, CLONE_NEWNS)
      [] o = "P" -> BitOr(CLONE_NEWPID, CLONE_NEWNS)
      [] o = "u" -> CLONE_NEWUTS

GetoptFlags(nsopts) == UNION { OptFlag(o) : o \in nsopts }

AllOptions ==
    [ closefds  : BOOLEAN,
      detachtty : BOOLEAN,
      nsopts    : SUBSET {"m", "n", "P", "u"},
      printpid  : BOOLEAN,
      attachpid : {0, AttachPid},
      cgrouparg : {<<>>} \cup GroupNames,   \* <<>>: no -g (NULL)
      rtprio    : {0, 5},
      hascmd    : BOOLEAN ]                 \* optind < argc

B2N(b) == IF b THEN 1 ELSE 0

(* the number of options on the command line *)
NumOpts(o) ==
    B2N(o.closefds) + B2N(o.detachtty) + Cardinality(o.nsopts) + B2N(o.printpid)
    + B2N(o.attachpid # 0) + B2N(o.cgrouparg # <<>>) + B2N(o.rtprio # 0)

Options == { o \in AllOptions : NumOpts(o) <= MaxOpts }

(* printf("\001%d\n", pid) *)
RECURSIVE Digits(_)
Digits(n) == IF n < 10 THEN <<48 + n>> ELSE Digits(n \div 10) \o <<48 + (n % 10)>>

PidReport(pid) == <<1>> \o Digits(pid) \o <<10>>

----------------------------------------------------------------------------
(* piper: command lines, as sequences of arguments, each a sequence of
   characters *)

CmdTest   == << <<".", "/", "t", "e", "s", "t">> >>
CmdQuiet  == << <<".", "/", "q">> >>
CmdWrap   == << <<"-", "m">> >> \o CmdTest
CmdMnexec == << <<".", "/", "m", "n", "e", "x", "e", "c">> >>
CmdLaunch == CmdMnexec \o CmdTest
CmdLaunchC == CmdMnexec \o << <<"-", "c">> >> \o CmdTest

(* the commands piper is started with: argv + 1 *)
PiperCommands == {CmdTest, CmdQuiet, CmdWrap, CmdLaunch, CmdLaunchC}

(* the descriptors piper is started with *)
PiperInherited == { {0, 1, 2}, {0, 1, 2, 3} }


PiperIdle ==
    [ argv |-> <<>>, cpc |-> "none", kpc |-> "none", cfds |-> {}, kfds |-> {},
      fdr |-> 0 - 1, fdw |-> 0 - 1, pipe |-> <<>>, written |-> 0, n |-> 0 - 1,
      kpid |-> 0, cstatus |-> NotExited, kstatus |-> NotExited, cmd |-> <<>>,
      image |-> "none", mn |-> "none", mnclosed |-> FALSE, wres |-> "none" ]

----------------------------------------------------------------------------

Init ==
    /\ opt \in Options
    /\ pc = [p \in Procs |-> IF p = "parent" THEN "closefds" ELSE "none"]
    /\ flags = [p \in Procs |-> IF p = "parent" THEN GetoptFlags(opt.nsopts) ELSE Zero]
    /\ dofork = [p \in Procs |-> FALSE]
    /\ detachtty = [p \in Procs |-> p = "parent" /\ opt.detachtty]
    /\ pidOf = [p \in Procs |-> IF p = "parent" THEN LauncherPid ELSE 0]
    /\ startLeader \in BOOLEAN
    /\ pgid = [p \in Procs |-> IF p # "parent" THEN 0
                                ELSE IF startLeader THEN LauncherPid ELSE OtherPgid]
    /\ unshares = <<>>
    /\ sid = [p \in Procs |-> IF p = "parent" THEN OtherSid ELSE 0]
    /\ fds = [p \in Procs |-> IF p = "parent" THEN InheritedFds ELSE {}]
    /\ exitStatus = [p \in Procs |-> NotExited]
    /\ ns = [i |-> 1, flag |-> Zero, same |-> {}, opened |-> {}, joined |-> {},
             failed |-> {}, chroot |-> "none", chdir |-> "none", ret |-> Zero]
    /\ forkCalls = 0
    /\ out = <<>>
    /\ sessOps = <<>>
    /\ cg = [validated |-> FALSE, opened |-> {}, written |-> {}, by |-> "none"]
    /\ mounts = <<>>
    /\ sched = <<>>
    /\ execd = {}
    /\ fatal = [p \in Procs |-> "none"]
    /\ piper = PiperIdle

(* return <status> from main, or exit(<status>) *)
Exit(p, status, why) ==
    /\ pc' = [pc EXCEPT ![p] = "done"]
    /\ exitStatus' = [exitStatus EXCEPT ![p] = status]
    /\ fatal' = [fatal EXCEPT ![p] = why]

Goto(p, l) ==
    /\ pc' = [pc EXCEPT ![p] = l]
    /\ UNCHANGED <<exitStatus, fatal>>

(* if (closefds) for (fd = getdtablesize(); fd > 2; fd--) close(fd); *)
CloseFds(p) ==
    /\ pc[p] = "closefds"
    /\ fds' = [fds EXCEPT ![p] = IF opt.closefds THEN {fd \in fds[p] : fd <= 2}
                                 ELSE fds[p]]
    /\ Goto(p, IF opt.attachpid # 0 THEN "attach" ELSE "unshare")
    /\ UNCHANGED <<opt, flags, dofork, detachtty, pidOf, pgid, sid, ns, forkCalls,
                   out, sessOps, cg, mounts, sched, execd,
                   startLeader, unshares, piper>>

(* if (unshare(flags) == -1) { perror("unshare"); return 1; } *)
Unshare(p) ==
    /\ pc[p] = "unshare"
    /\ \E ok \in BOOLEAN :
          /\ unshares' = Append(unshares, [by |-> p, flags |-> flags[p], ok |-> ok])
          /\ IF ok THEN Goto(p, "decide") ELSE Exit(p, 1, "unshare")
    /\ UNCHANGED <<opt, flags, dofork, detachtty, pidOf, pgid, sid, fds, ns,
                   forkCalls, out, sessOps, cg, mounts, sched, execd, startLeader,
                   piper>>

----------------------------------------------------------------------------
(* attachns() and attach() *)

(* open() returns the lowest descriptor not in use *)
LowestFree(S) == CHOOSE n \in 0..Cardinality(S) : n \notin S /\ \A m \in 0..(n - 1) : m \in S

NsOutcomes == {"same", "openfail", "setnsfail", "joined"}

(* an attachns that returns ns->type for a namespace it did not join *)
AttachnsRetTypeWhenSame(o, n) ==
    CASE o = "same"      -> n.type
      [] o = "openfail"  -> MinusOne
      [] o = "setnsfail" -> MinusOne
      [] o = "joined"    -> n.type

(* the value attachns returns: 0 for the same namespace, the negative result
   of open or setns on failure, ns->type on success *)
AttachnsRet(o, n) ==
    CASE o = "same"      -> Zero
      [] o = "openfail"  -> MinusOne
      [] o = "setnsfail" -> MinusOne
      [] o = "joined"    -> n.type

(* a loop that treats every failure like the mount namespace's: only a failed
   chroot stops it *)
AttachStopsOnlyForMnt(ret, n, chrootOk) ==
    IsNeg(ret) /\ n.type = CLONE_NEWNS /\ ~chrootOk

(* the body of attach's loop for one namespace: does attach return -1 here? *)
AttachStops(ret, n, chrootOk) ==
    IsNeg(ret) /\ (IF n.type = CLONE_NEWNS THEN ~chrootOk ELSE TRUE)

(* flag |= ret *)
AttachAccumulate(flag, ret) == BitOr(flag, ret)

(* if ((flags = attach(attachpid)) == -1) return 1; *)
AttachFailed(value) == value = MinusOne

AttachReturn(p, value) ==
    /\ flags' = [flags EXCEPT ![p] = value]
    /\ IF AttachFailed(value) THEN Exit(p, 1, "attach") ELSE Goto(p, "decide")

AttachNs(p) ==
    /\ pc[p] = "attach"
    /\ ns.i <= NsLen
    /\ LET n == namespaces[ns.i] IN
       \E o \in NsOutcomes, chrootOk \in BOOLEAN :
          LET ret      == AttachnsRet(o, n)
              didOpen  == o \in {"setnsfail", "joined"}
              planB    == IsNeg(ret) /\ n.type = CLONE_NEWNS
              stops    == AttachStops(ret, n, chrootOk)
              logged   == [ns EXCEPT
                             !.same   = IF o = "same" THEN @ \cup {n.name} ELSE @,
                             !.opened = IF didOpen THEN @ \cup {n.name} ELSE @,
                             !.joined = IF o = "joined" THEN @ \cup {n.name} ELSE @,
                             !.failed = IF IsNeg(ret) THEN @ \cup {n.name} ELSE @,
                             !.chroot = IF planB THEN (IF chrootOk THEN "ok" ELSE "failed")
                                        ELSE @,
                             !.ret    = ret]
          IN  /\ planB \/ chrootOk          \* chroot is only called for Plan B
              /\ fds' = [fds EXCEPT ![p] = IF didOpen THEN @ \cup {LowestFree(@)} ELSE @]
              /\ IF stops
                 THEN /\ ns' = logged
                      /\ AttachReturn(p, MinusOne)
                 ELSE /\ ns' = [logged EXCEPT !.i = @ + 1,
                                              !.flag = AttachAccumulate(@, ret)]
                      /\ Goto(p, IF ns.i = NsLen THEN "chdir" ELSE "attach")
                      /\ UNCHANGED flags
    /\ UNCHANGED <<opt, dofork, detachtty, pidOf, pgid, sid, forkCalls, out,
                   sessOps, cg, mounts, sched, execd,
                   startLeader, unshares, piper>>

(* if (chdir(cwd) != 0) { perror(cwd); return -1; }  return flag; *)
AttachChdir(p) ==
    /\ pc[p] = "chdir"
    /\ \E ok \in BOOLEAN :
          /\ ns' = [ns EXCEPT !.chdir = IF ok THEN "ok" ELSE "failed"]
          /\ AttachReturn(p, IF ok THEN ns.flag ELSE MinusOne)
    /\ UNCHANGED <<opt, dofork, detachtty, pidOf, pgid, sid, fds, forkCalls, out,
                   sessOps, cg, mounts, sched, execd,
                   startLeader, unshares, piper>>

----------------------------------------------------------------------------
(* the fork decision and the session / process group change *)

(* a fork decision that forgets the PID namespace *)
DoForkOnlyForDetach(fl, dt, leader) == dt /\ leader

(* a fork for every -d, whether or not the launcher leads its process group *)
DoForkOnEveryDetach(fl, dt, leader) ==
    \/ Truthy(BitAnd(fl, CLONE_NEWPID))
    \/ dt

(* dofork after lines 237-246 *)
DoFork(fl, dt, leader) ==
    \/ Truthy(BitAnd(fl, CLONE_NEWPID))
    \/ (dt /\ leader)

(* detachtty after lines 241-246 *)
DetachAfter(dt, leader) == dt /\ leader

Decide(p) ==
    /\ pc[p] = "decide"
    /\ LET leader == pgid[p] = pidOf[p] IN       \* getpgrp() == getpid()
          /\ dofork' = [dofork EXCEPT ![p] = DoFork(flags[p], detachtty[p], leader)]
          /\ detachtty' = [detachtty EXCEPT ![p] = DetachAfter(detachtty[p], leader)]
    /\ Goto(p, "session")
    /\ UNCHANGED <<opt, flags, pidOf, pgid, sid, fds, ns, forkCalls, out, sessOps,
                   cg, mounts, sched, execd,
                   startLeader, unshares, piper>>

(* kernel: setsid() fails with EPERM when the caller is a process group leader *)
SetsidOk(p) == pgid[p] # pidOf[p]

(* if (detachtty) setsid(); else setpgid(0, 0); *)
Session(p) ==
    /\ pc[p] = "session"
    /\ IF detachtty[p]
       THEN /\ sessOps' = Append(sessOps, [by |-> p, op |-> "setsid", ok |-> SetsidOk(p)])
            /\ sid' = [sid EXCEPT ![p] = IF SetsidOk(p) THEN pidOf[p] ELSE @]
            /\ pgid' = [pgid EXCEPT ![p] = IF SetsidOk(p) THEN pidOf[p] ELSE @]
       ELSE /\ sessOps' = Append(sessOps, [by |-> p, op |-> "setpgid", ok |-> TRUE])
            /\ pgid' = [pgid EXCEPT ![p] = pidOf[p]]
            /\ UNCHANGED sid
    /\ Goto(p, "fork")
    /\ UNCHANGED <<opt, flags, dofork, detachtty, pidOf, fds, ns, forkCalls, out,
                   cg, mounts, sched, execd,
                   startLeader, unshares, piper>>

(* if (dofork) { pid_t pid = fork(); switch(pid) { case -1: ... return 1; ... } } *)
Fork(p) ==
    /\ pc[p] = "fork"
    /\ p = "parent"
    /\ IF ~dofork[p]
       THEN /\ Goto(p, "report")
            /\ UNCHANGED <<flags, dofork, detachtty, pidOf, pgid, sid, fds, forkCalls>>
       ELSE /\ forkCalls' = forkCalls + 1
            /\ \/ /\ Exit(p, 1, "fork")
                  /\ UNCHANGED <<flags, dofork, detachtty, pidOf, pgid, sid, fds>>
               \/ \E cpid \in ChildPids :
                     /\ pidOf' = [pidOf EXCEPT !["child"] = cpid]
                     /\ flags' = [flags EXCEPT !["child"] = flags[p]]
                     /\ dofork' = [dofork EXCEPT !["child"] = dofork[p]]
                     /\ detachtty' = [detachtty EXCEPT !["child"] = detachtty[p]]
                     /\ pgid' = [pgid EXCEPT !["child"] = pgid[p]]
                     /\ sid' = [sid EXCEPT !["child"] = sid[p]]
                     /\ fds' = [fds EXCEPT !["child"] = fds[p]]
                     /\ pc' = [pc EXCEPT ![p] = "preport", !["child"] = "report"]
                     /\ UNCHANGED <<exitStatus, fatal>>
    /\ UNCHANGED <<opt, ns, out, sessOps, cg, mounts, sched, execd,
                   startLeader, unshares, piper>>

(* getpid(): a process forked into a freshly created pid namespace is pid 1 there *)
Getpid(p) ==
    IF p = "child" /\ opt.attachpid = 0 /\ Truthy(BitAnd(flags[p], CLONE_NEWPID))
    THEN 1 ELSE pidOf[p]

(* a parent that prints getpid() instead of fork()'s return value *)
ParentReportOwnPid(p) == pidOf[p]

(* the pid the parent prints: fork()'s return value, the child's pid *)
ParentReportPid(p) == pidOf["child"]

(* default: if (printpid) { printf("\001%d\n", pid); fflush(stdout); } *)
ParentReports(p) == opt.printpid

(* a parent that returns without waiting for the child *)
ParentNeverWaits(p) == FALSE

(* default: ... if (flags & CLONE_NEWPID) wait(&status); *)
ParentWaits(p) == Truthy(BitAnd(flags[p], CLONE_NEWPID))

ParentReport(p) ==
    /\ pc[p] = "preport"
    /\ out' = IF ParentReports(p)
              THEN Append(out, [by |-> p, pid |-> ParentReportPid(p),
                                bytes |-> PidReport(ParentReportPid(p))])
              ELSE out
    /\ Goto(p, "pwait")
    /\ UNCHANGED <<opt, flags, dofork, detachtty, pidOf, pgid, sid, fds, ns,
                   forkCalls, sessOps, cg, mounts, sched, execd,
                   startLeader, unshares, piper>>

(* kernel: wait() returns once the child has terminated *)
WaitReturns(p) == pc["child"] = "done"

(* the status the parent returns after the fork: return 0 *)
ParentStatus(p) == 0

ParentWait(p) ==
    /\ pc[p] = "pwait"
    /\ ParentWaits(p) => WaitReturns(p)
    /\ Exit(p, ParentStatus(p), "none")
    /\ UNCHANGED <<opt, flags, dofork, detachtty, pidOf, pgid, sid, fds, ns,
                   forkCalls, out, sessOps, cg, mounts, sched, execd,
                   startLeader, unshares, piper>>

(* if (printpid && !dofork) *)
SelfReports(p) == opt.printpid /\ ~dofork[p]

SIGABRT == 134

(* ... { assert(!(flags & CLONE_NEWPID)); printf("\001%d\n", getpid()); fflush(stdout); } *)
SelfReport(p) ==
    /\ pc[p] = "report"
    /\ IF SelfReports(p)
       THEN IF Truthy(BitAnd(flags[p], CLONE_NEWPID))
            THEN /\ Exit(p, SIGABRT, "assert")
                 /\ UNCHANGED out
            ELSE /\ out' = Append(out, [by |-> p, pid |-> Getpid(p),
                                        bytes |-> PidReport(Getpid(p))])
                 /\ Goto(p, "cgroup")
       ELSE /\ Goto(p, "cgroup")
            /\ UNCHANGED out
    /\ UNCHANGED <<opt, flags, dofork, detachtty, pidOf, pgid, sid, fds, ns,
                   forkCalls, sessOps, cg, mounts, sched, execd,
                   startLeader, unshares, piper>>

----------------------------------------------------------------------------
(* validate() and cgroup() *)

(* a validate that rejects nothing *)
ValidAcceptsAll(path) == TRUE

(* validate: every character is alphanumeric or '/' *)
Valid(path) == \A i \in 1..Len(path) : path[i] \in Alnum \/ path[i] = "/"

ControllerSet == { Controllers[i] : i \in 1..Len(Controllers) }

(* a pid taken in the launcher before the fork *)
CgroupPidOfLauncher(p) == pidOf["parent"]

(* pid_t pid = getpid(); in cgroup() *)
CgroupPid(p) == Getpid(p)

(* if (!count) { ...; exit(1); } where count is the number of fopen successes *)
CgroupFails(opened) == Cardinality(opened) = 0

(* if (cgrouparg) cgroup(cgrouparg); *)
Cgroup(p) ==
    /\ pc[p] = "cgroup"
    /\ IF opt.cgrouparg = <<>>
       THEN /\ Goto(p, "mount")
            /\ UNCHANGED cg
       ELSE IF ~Valid(opt.cgrouparg)
       THEN /\ Exit(p, 1, "validate")
            /\ UNCHANGED cg
       ELSE \E opened \in SUBSET ControllerSet :          \* fopen(path, "w") succeeded
            \E accepted \in SUBSET opened :               \* the kernel took the pid
               /\ cg' = [validated |-> TRUE, opened |-> opened,
                         written |-> { [ctrl |-> c, pid |-> CgroupPid(p)] : c \in accepted },
                         by |-> p]
               /\ IF CgroupFails(opened) THEN Exit(p, 1, "cgroup") ELSE Goto(p, "mount")
    /\ UNCHANGED <<opt, flags, dofork, detachtty, pidOf, pgid, sid, fds, ns,
                   forkCalls, out, sessOps, mounts, sched, execd,
                   startLeader, unshares, piper>>

----------------------------------------------------------------------------
(* mount remediation *)

(* remediation that forgets to test attachpid *)
RemediatesInAttachToo(p) == Truthy(BitAnd(flags[p], CLONE_NEWNS))

(* if (!attachpid && flags & CLONE_NEWNS) *)
Remediates(p) == opt.attachpid = 0 /\ Truthy(BitAnd(flags[p], CLONE_NEWNS))

(* if (flags & CLONE_NEWNET) *)
RemountsSys(p) == Truthy(BitAnd(flags[p], CLONE_NEWNET))

(* if (flags & CLONE_NEWPID) *)
RemountsProc(p) == Truthy(BitAnd(flags[p], CLONE_NEWPID))

(* a mount() failure that returns 0 instead of 1 *)
MountStepFailureReturns0(p, wanted, target, next) ==
    IF wanted
    THEN \E ok \in BOOLEAN :
            /\ mounts' = Append(mounts, [by |-> p, target |-> target, ok |-> ok])
            /\ IF ok THEN Goto(p, next) ELSE Exit(p, 0, "mount")
    ELSE /\ Goto(p, next)
         /\ UNCHANGED mounts

(* one mount() call: -1 is fatal (perror, return 1), otherwise go on *)
MountStep(p, wanted, target, next) ==
    IF wanted
    THEN \E ok \in BOOLEAN :
            /\ mounts' = Append(mounts, [by |-> p, target |-> target, ok |-> ok])
            /\ IF ok THEN Goto(p, next) ELSE Exit(p, 1, "mount")
    ELSE /\ Goto(p, next)
         /\ UNCHANGED mounts

MountRoot(p) ==
    /\ pc[p] = "mount"
    /\ IF Remediates(p)
       THEN MountStep(p, TRUE, "/", "mountsys")
       ELSE /\ Goto(p, "sched")
            /\ UNCHANGED mounts
    /\ UNCHANGED <<opt, flags, dofork, detachtty, pidOf, pgid, sid, fds, ns,
                   forkCalls, out, sessOps, cg, sched, execd,
                   startLeader, unshares, piper>>

MountSys(p) ==
    /\ pc[p] = "mountsys"
    /\ MountStep(p, RemountsSys(p), "/sys", "mountproc")
    /\ UNCHANGED <<opt, flags, dofork, detachtty, pidOf, pgid, sid, fds, ns,
                   forkCalls, out, sessOps, cg, sched, execd,
                   startLeader, unshares, piper>>

MountProc(p) ==
    /\ pc[p] = "mountproc"
    /\ MountStep(p, RemountsProc(p), "/proc", "sched")
    /\ UNCHANGED <<opt, flags, dofork, detachtty, pidOf, pgid, sid, fds, ns,
                   forkCalls, out, sessOps, cg, sched, execd,
                   startLeader, unshares, piper>>

----------------------------------------------------------------------------
(* RT scheduling, exec and the command *)

(* optarg when main reads it after the getopt loop.  getopt leaves it either
   NULL (it is reset on every call, the last one included) or pointing at the
   argument of an option parsed earlier: -r's, -a's or -g's. *)
OptargAfterLoop ==
    {"NULL"} \cup {"r"} \cup (IF opt.attachpid # 0 THEN {"a"} ELSE {})
             \cup (IF opt.cgrouparg # <<>> THEN {"g"} ELSE {})

(* atoi(optarg) for a non-NULL optarg *)
AtoiOptarg(o) ==
    CASE o = "r" -> opt.rtprio
      [] o = "a" -> opt.attachpid
      [] o = "g" -> 0                      \* the group names start with a letter

(* if (rtprio != 0) { sp.sched_priority = atoi(optarg); sched_setscheduler(...) } *)
Sched(p) ==
    /\ pc[p] = "sched"
    /\ IF opt.rtprio # 0
       THEN \E o \in OptargAfterLoop :
               IF o = "NULL"
               THEN /\ Exit(p, SIGSEGV, "crash")           \* atoi(NULL)
                    /\ UNCHANGED sched
               ELSE \E ok \in BOOLEAN :
                       /\ sched' = Append(sched, [by |-> p, prio |-> AtoiOptarg(o),
                                                  ok |-> ok])
                       /\ IF ok THEN Goto(p, "exec") ELSE Exit(p, 1, "sched")
       ELSE /\ Goto(p, "exec")
            /\ UNCHANGED sched
    /\ UNCHANGED <<opt, flags, dofork, detachtty, pidOf, pgid, sid, fds, ns,
                   forkCalls, out, sessOps, cg, mounts, execd,
                   startLeader, unshares, piper>>

(* the status main returns when execvp has failed *)
ExecFailStatus == 1

(* if (optind < argc) { execvp(...); perror(...); return 1; }  usage(); return 0; *)
Exec(p) ==
    /\ pc[p] = "exec"
    /\ IF opt.hascmd
       THEN \/ /\ execd' = execd \cup {p}
               /\ Goto(p, "target")
            \/ /\ Exit(p, ExecFailStatus, "exec")
               /\ UNCHANGED execd
       ELSE /\ Exit(p, 0, "none")
            /\ UNCHANGED execd
    /\ UNCHANGED <<opt, flags, dofork, detachtty, pidOf, pgid, sid, fds, ns,
                   forkCalls, out, sessOps, cg, mounts, sched,
                   startLeader, unshares, piper>>

TargetStatuses == {0, 3}

(* the command runs in place of the launcher and exits with a status of its own *)
TargetExit(p) ==
    /\ pc[p] = "target"
    /\ \E st \in TargetStatuses : Exit(p, st, "none")
    /\ UNCHANGED <<opt, flags, dofork, detachtty, pidOf, pgid, sid, fds, ns,
                   forkCalls, out, sessOps, cg, mounts, sched, execd,
                   startLeader, unshares, piper>>

Next ==
    \E p \in Procs :
        \/ CloseFds(p)
        \/ Unshare(p)
        \/ AttachNs(p)
        \/ AttachChdir(p)
        \/ Decide(p)
        \/ Session(p)
        \/ Fork(p)
        \/ ParentReport(p)
        \/ ParentWait(p)
        \/ SelfReport(p)
        \/ Cgroup(p)
        \/ MountRoot(p)
        \/ MountSys(p)
        \/ MountProc(p)
        \/ Sched(p)
        \/ Exec(p)
        \/ TargetExit(p)

Spec == Init /\ [][Next]_vars

----------------------------------------------------------------------------
(* piper.c and test.c: the PID-relay caller, the child it forks, the command
   chain the child execs and the pipe between them *)

(* strstr(s, sub) != NULL *)
Contains(s, sub) ==
    \E i \in 1..(Len(s) - Len(sub) + 1) : SubSeq(s, i, i + Len(sub) - 1) = sub

DigitChars == <<"0", "1", "2", "3", "4", "5", "6", "7", "8", "9">>

(* snprintf(pipeStr, 20, "%d", fds[1]) *)
RECURSIVE DecString(_)
DecString(n) ==
    IF n < 10 THEN <<DigitChars[n + 1]>>
    ELSE DecString(n \div 10) \o <<DigitChars[(n % 10) + 1]>>

(* char *baseCmd[1000] = { "./mnexec", "-cnPu", "-w" }; baseCmd[3] = pipeStr;
   memcpy(baseCmd + 4, argv + 1, ...) *)
BaseCmd(args, fdw) ==
    CmdMnexec \o << <<"-", "c", "n", "P", "u">>, <<"-", "w">>, DecString(fdw) >> \o args

(* cmd: argv + 1, wrapped with mnexec when argv[1] contains "-m" *)
ChildCmd(args, fdw) ==
    IF Contains(args[1], <<"-", "m">>) THEN BaseCmd(args, fdw) ELSE args

(* mnexec's getopt string "+cdmnPpa:g:r:uvh" *)
OptLetters == {"c", "d", "m", "n", "P", "p", "a", "g", "r", "u", "v", "h"}
ArgLetters == {"a", "g", "r"}

(* mnexec's getopt loop over an argument vector: the options seen and optind,
   or the exit the loop itself takes (usage and exit(1) for an option that is
   not in the string or lacks its argument, exit(0) for -v and -h) *)
RECURSIVE GetoptScan(_, _, _, _)
GetoptScan(args, i, j, seen) ==
    IF i > Len(args) \/ Len(args[i]) < 2 \/ args[i][1] # "-"
    THEN [status |-> "ok", seen |-> seen, optind |-> i]
    ELSE IF args[i] = <<"-", "-">>
    THEN [status |-> "ok", seen |-> seen, optind |-> i + 1]
    ELSE LET c    == args[i][j]
             last == j = Len(args[i])
         IN  IF c \notin OptLetters
             THEN [status |-> "usage1", seen |-> seen, optind |-> i]
             ELSE IF c \in {"v", "h"}
             THEN [status |-> "exit0", seen |-> seen, optind |-> i]
             ELSE IF c \in ArgLetters
             THEN IF ~last THEN GetoptScan(args, i + 1, 2, seen \cup {c})
                  ELSE IF i + 1 <= Len(args)
                  THEN GetoptScan(args, i + 2, 2, seen \cup {c})
                  ELSE [status |-> "usage1", seen |-> seen, optind |-> i]
             ELSE IF last THEN GetoptScan(args, i + 1, 2, seen \cup {c})
                  ELSE GetoptScan(args, i, j + 1, seen \cup {c})

(* the program an executable name stands for *)
ImageOf(name) ==
    IF <<name>> = CmdMnexec THEN "mnexec"
    ELSE IF <<name>> = CmdTest THEN "test"
    ELSE "quiet"

StartOf(image) ==
    CASE image = "mnexec" -> "mn_getopt"
      [] image = "test"   -> "test"
      [] image = "quiet"  -> "run"

(* test.c: write(4, "test\n", 6) *)
TestFd == 4
TestBytes == <<116, 101, 115, 116, 10, 0>>

(* piper.c: char buf[10] *)
PiperBufSize == 10

(* kernel: a read on a pipe returns when there is data, or end-of-file once
   no process holds the write end *)
ReadReady(pp) ==
    \/ pp.pipe # <<>>
    \/ (pp.fdw \notin pp.cfds /\ pp.fdw \notin pp.kfds)

(* a parent that closes the write end before it reads *)
ParentClosesWriteEnd(pp) == {pp.fdw}

(* the descriptors piper's parent closes between fork and read: none *)
ParentClosesAfterFork(pp) == {}

PiperInit ==
    /\ \E a \in PiperCommands \cup {<<>>}, f \in PiperInherited :
          piper = [PiperIdle EXCEPT !.argv = a, !.cpc = "start", !.cfds = f]
    /\ opt = [closefds |-> FALSE, detachtty |-> FALSE, nsopts |-> {},
              printpid |-> FALSE, attachpid |-> 0, cgrouparg |-> <<>>,
              rtprio |-> 0, hascmd |-> FALSE]
    /\ pc = [p \in Procs |-> "none"]
    /\ flags = [p \in Procs |-> Zero]
    /\ dofork = [p \in Procs |-> FALSE]
    /\ detachtty = [p \in Procs |-> FALSE]
    /\ pidOf = [p \in Procs |-> 0]
    /\ startLeader = FALSE
    /\ pgid = [p \in Procs |-> 0]
    /\ unshares = <<>>
    /\ sid = [p \in Procs |-> 0]
    /\ fds = [p \in Procs |-> {}]
    /\ exitStatus = [p \in Procs |-> NotExited]
    /\ ns = [i |-> 1, flag |-> Zero, same |-> {}, opened |-> {}, joined |-> {},
             failed |-> {}, chroot |-> "none", chdir |-> "none", ret |-> Zero]
    /\ forkCalls = 0
    /\ out = <<>>
    /\ sessOps = <<>>
    /\ cg = [validated |-> FALSE, opened |-> {}, written |-> {}, by |-> "none"]
    /\ mounts = <<>>
    /\ sched = <<>>
    /\ execd = {}
    /\ fatal = [p \in Procs |-> "none"]

(* if (argc <= 1) { printf("Usage: piper <command>\n"); return 1; } *)
PCallerStart ==
    /\ piper.cpc = "start"
    /\ piper' = IF piper.argv = <<>>
                THEN [piper EXCEPT !.cpc = "done", !.cstatus = 1]
                ELSE [piper EXCEPT !.cpc = "pipe"]
    /\ UNCHANGED launcherVars

(* int fds[2]; pipe(fds); *)
PCallerPipe ==
    /\ piper.cpc = "pipe"
    /\ LET r == LowestFree(piper.cfds)
           w == LowestFree(piper.cfds \cup {r})
       IN  piper' = [piper EXCEPT !.fdr = r, !.fdw = w, !.cfds = @ \cup {r, w},
                                  !.cpc = "fork"]
    /\ UNCHANGED launcherVars

(* if ((pid = fork()) == -1) { perror("fork"); return 1; } *)
PCallerFork ==
    /\ piper.cpc = "fork"
    /\ \/ piper' = [piper EXCEPT !.cpc = "done", !.cstatus = 1]
       \/ \E k \in ChildPids :
             piper' = [piper EXCEPT !.kpid = k, !.kfds = piper.cfds, !.kpc = "close",
                                    !.cfds = @ \ ParentClosesAfterFork(piper),
                                    !.cpc = "read"]
    /\ UNCHANGED launcherVars

(* n = read(fds[0], buf, sizeof(buf)); fprintf(stderr, "Got PID: '%s'\n", buf); *)
PCallerRead ==
    /\ piper.cpc = "read"
    /\ ReadReady(piper)
    /\ LET n == IF Len(piper.pipe) < PiperBufSize THEN Len(piper.pipe) ELSE PiperBufSize
       IN  piper' = [piper EXCEPT !.n = n,
                                  !.pipe = SubSeq(@, n + 1, Len(@)),
                                  !.cpc = "wait"]
    /\ UNCHANGED launcherVars

(* wait(&status); return 0; *)
PCallerWait ==
    /\ piper.cpc = "wait"
    /\ piper.kpc = "done"
    /\ piper' = [piper EXCEPT !.cpc = "done", !.cstatus = 0]
    /\ UNCHANGED launcherVars

(* close(fds[0]); *)
PChildClose ==
    /\ piper.kpc = "close"
    /\ piper' = [piper EXCEPT !.kfds = @ \ {piper.fdr}, !.kpc = "exec"]
    /\ UNCHANGED launcherVars

(* the chain process terminates: its descriptors are closed *)
ChainExit(status) ==
    [piper EXCEPT !.kpc = "done", !.kstatus = status, !.kfds = {}]

(* execvp(cmd[0], cmd); perror(cmd[0]); return 1; *)
PChildExec ==
    /\ piper.kpc = "exec"
    /\ LET cmd == ChildCmd(piper.argv, piper.fdw) IN
         \/ piper' = [piper EXCEPT !.cmd = cmd, !.image = ImageOf(cmd[1]),
                                   !.kpc = StartOf(ImageOf(cmd[1]))]
         \/ piper' = [ChainExit(1) EXCEPT !.cmd = cmd]
    /\ UNCHANGED launcherVars

(* mnexec as the chain's image: the getopt loop of main *)
PLauncherGetopt ==
    /\ piper.kpc = "mn_getopt"
    /\ LET r == GetoptScan(piper.cmd, 2, 2, {}) IN
          piper' = CASE r.status = "usage1" -> [ChainExit(1) EXCEPT !.mn = r]
                     [] r.status = "exit0"  -> [ChainExit(0) EXCEPT !.mn = r]
                     [] r.status = "ok"     -> [piper EXCEPT !.mn = r, !.kpc = "mn_close"]
    /\ UNCHANGED launcherVars

(* mnexec: if (closefds) for (fd = getdtablesize(); fd > 2; fd--) close(fd); *)
PLauncherClose ==
    /\ piper.kpc = "mn_close"
    /\ piper' = IF "c" \in piper.mn.seen
                THEN [piper EXCEPT !.kfds = {fd \in @ : fd <= 2}, !.mnclosed = TRUE,
                                   !.kpc = "mn_exec"]
                ELSE [piper EXCEPT !.kpc = "mn_exec"]
    /\ UNCHANGED launcherVars

(* mnexec without namespace, fork or cgroup options: unshare(0), setpgid(0,0)
   and then execvp(argv[optind], ...), or usage and return 0 *)
PLauncherExec ==
    /\ piper.kpc = "mn_exec"
    /\ piper.mn.seen \subseteq {"c"}
    /\ IF piper.mn.optind <= Len(piper.cmd)
       THEN \/ piper' = [piper EXCEPT !.image = ImageOf(piper.cmd[piper.mn.optind]),
                                      !.kpc = StartOf(ImageOf(piper.cmd[piper.mn.optind]))]
            \/ piper' = ChainExit(1)
       ELSE piper' = ChainExit(0)
    /\ UNCHANGED launcherVars

(* test.c: if (write(4, "test\n", 6) == -1) perror(...); else printf(...); *)
PTestWrite ==
    /\ piper.kpc = "test"
    /\ piper' = IF TestFd \notin piper.kfds
                THEN [piper EXCEPT !.wres = "EBADF", !.kpc = "run"]
                ELSE IF TestFd = piper.fdw
                THEN [piper EXCEPT !.wres = "ok", !.pipe = @ \o TestBytes,
                                   !.written = @ + Len(TestBytes), !.kpc = "run"]
                ELSE [piper EXCEPT !.wres = "elsewhere", !.kpc = "run"]
    /\ UNCHANGED launcherVars

(* the command runs to its end and exits *)
PChainExit ==
    /\ piper.kpc = "run"
    /\ \E st \in TargetStatuses : piper' = ChainExit(st)
    /\ UNCHANGED launcherVars

PiperNext ==
    \/ PCallerStart
    \/ PCallerPipe
    \/ PCallerFork
    \/ PCallerRead
    \/ PCallerWait
    \/ PChildClose
    \/ PChildExec
    \/ PLauncherGetopt
    \/ PLauncherClose
    \/ PLauncherExec
    \/ PTestWrite
    \/ PChainExit

SpecPiper == PiperInit /\ [][PiperNext]_vars

----------------------------------------------------------------------------
(* Vocabulary of the properties *)

Forked == pidOf["child"] # 0
HasPidNs(p) == Truthy(BitAnd(flags[p], CLONE_NEWPID))

(* the launcher got past namespace setup: unshare or attach has succeeded *)
SetupOk ==
    /\ pc["parent"] \notin {"closefds", "unshare", "attach", "chdir"}
    /\ fatal["parent"] \notin {"unshare", "attach"}

(* the launcher is past the fork decision of lines 256-279 *)
PastFork == SetupOk /\ pc["parent"] \notin {"decide", "session", "fork"}

FatalConditions ==
    {"fork", "unshare", "attach", "mount", "cgroup", "validate", "sched", "exec"}

NsNames == { namespaces[i].name : i \in 1..NsLen }
NsIndex(k) == CHOOSE i \in 1..NsLen : namespaces[i].name = k
NsType(k) == namespaces[NsIndex(k)].type

(* the value of a sequence of ASCII decimal digits *)
RECURSIVE DecValue(_)
DecValue(ds) ==
    IF ds = <<>> THEN 0
    ELSE 10 * DecValue(SubSeq(ds, 1, Len(ds) - 1)) + (ds[Len(ds)] - 48)

(* 0x01, the decimal digits of pid, newline *)
WellFramed(bytes, pid) ==
    /\ Len(bytes) >= 3
    /\ bytes[1] = 1
    /\ bytes[Len(bytes)] = 10
    /\ LET ds == SubSeq(bytes, 2, Len(bytes) - 1) IN
          /\ \A i \in 1..Len(ds) : ds[i] \in 48..57
          /\ Len(ds) > 1 => ds[1] # 48
          /\ DecValue(ds) = pid

(* the mount() calls remediation makes for process p, in order *)
ExpectedMounts(p) ==
    <<"/">> \o (IF Truthy(BitAnd(flags[p], CLONE_NEWNET)) THEN <<"/sys">> ELSE <<>>)
            \o (IF Truthy(BitAnd(flags[p], CLONE_NEWPID)) THEN <<"/proc">> ELSE <<>>)

MountTargets == [i \in 1..Len(mounts) |-> mounts[i].target]

----------------------------------------------------------------------------
(* C1: with the PID namespace in the effective flags the launcher calls fork
   exactly once; if the fork gave a child, the parent has not exited before
   the child has terminated, and the parent's exit status is 0 whatever the
   child's status is. *)
C1_PidNsForkWaitExit0 ==
    (SetupOk /\ HasPidNs("parent")) =>
        /\ forkCalls <= 1
        /\ PastFork => forkCalls = 1
        /\ pc["parent"] \in {"preport", "pwait", "done"} \/ ~PastFork
        /\ (pc["parent"] = "done" /\ Forked) =>
              /\ pc["child"] = "done"
              /\ exitStatus["parent"] = 0
        /\ (pc["parent"] = "done" /\ ~Forked) => fatal["parent"] = "fork"

C1_Witness ==
    /\ opt.attachpid = 0 /\ "P" \in opt.nsopts
    /\ pc["parent"] = "done" /\ exitStatus["parent"] = 0
    /\ "child" \in execd /\ exitStatus["child"] = 3

(* C2: past namespace setup fork is called iff the PID namespace is in the
   flags or (-d was given and the launcher was its process group leader),
   never more than once; -d without leadership and without PID namespace
   makes no fork and no setsid, only setpgid(0,0). *)
C2_ForkIff ==
    /\ forkCalls <= 1
    /\ PastFork =>
          /\ forkCalls = 1 <=> (HasPidNs("parent") \/ (opt.detachtty /\ startLeader))
          /\ (opt.detachtty /\ ~startLeader /\ ~HasPidNs("parent")) =>
                /\ forkCalls = 0
                /\ ~Forked
                /\ sessOps = << [by |-> "parent", op |-> "setpgid", ok |-> TRUE] >>

C2_Witness ==
    /\ opt.detachtty /\ ~startLeader /\ ~HasPidNs("parent")
    /\ "parent" \in execd
    /\ forkCalls = 0

(* C3: with -p, once setup and the fork (if any) have succeeded, exactly one
   PID report is written in the invocation: by the parent with the child's
   pid after a fork, by the launcher with its own pid otherwise; its bytes
   are 0x01, the decimal digits of that pid, newline.  Without -p there is
   no report. *)
C3_OneFramedReport ==
    /\ Len(out) <= 1
    /\ ~opt.printpid => out = <<>>
    /\ \A i \in 1..Len(out) :
          /\ out[i].by = "parent"
          /\ out[i].pid = (IF Forked THEN pidOf["child"] ELSE pidOf["parent"])
          /\ WellFramed(out[i].bytes, out[i].pid)
    /\ (opt.printpid /\ PastFork /\ fatal["parent"] # "fork"
          /\ pc["parent"] \notin {"preport", "report"}) => Len(out) = 1

C3_Witness ==
    /\ opt.printpid /\ Forked /\ pidOf["child"] > 99
    /\ pc["parent"] = "done" /\ pc["child"] = "done"
    /\ Len(out) = 1 /\ out[1].pid = pidOf["child"]

(* C4: in attach mode, when opening or joining the mount namespace fails and
   the chroot to /proc/P/root and the chdir back succeed, the launcher does
   not fail: it does not exit 1 from attach. *)
C4_ChrootFallbackProceeds ==
    (ns.chroot = "ok" /\ ns.chdir = "ok") =>
        ~(pc["parent"] = "done" /\ exitStatus["parent"] = 1 /\ fatal["parent"] = "attach")

(* C5: the process that execs the command is a session leader at that time
   iff -d was given and a fork happened. *)
C5_DetachForkNewSession ==
    \A p \in Procs :
        pc[p] = "target" => ((opt.detachtty /\ Forked) <=> sid[p] = pidOf[p])

(* C6 as stated: whenever a fatal condition occurs in the invocation, the
   launcher started by the caller exits 1. *)
C6_AnyFatalExits1 ==
    (pc["parent"] = "done" /\ \E p \in Procs : fatal[p] \in FatalConditions)
        => exitStatus["parent"] = 1

(* C6 amended: the process that runs into a fatal condition exits 1; the
   launcher started by the caller exits 1 when that process is itself, and
   exits 0 once it has forked, whatever happens to the child. *)
C6_FatalExitsOwnProcess ==
    /\ \A p \in Procs :
          fatal[p] \in FatalConditions => (pc[p] = "done" /\ exitStatus[p] = 1)
    /\ (pc["parent"] = "done" /\ Forked) => exitStatus["parent"] = 0

C6_Witness ==
    /\ Forked
    /\ fatal["child"] = "mount" /\ exitStatus["child"] = 1
    /\ pc["parent"] = "done" /\ exitStatus["parent"] = 0

(* C7: with -p, whenever a process runs the command's image the PID report
   has already been written. *)
C7_ReportBeforeTarget ==
    \A p \in Procs : (opt.printpid /\ pc[p] = "target") => Len(out) = 1

(* C8: mount() is called only in create mode with the mount namespace in the
   flags, after unshare and the fork; the calls are "/" first, then "/sys"
   iff the network namespace is in the flags, then "/proc" iff the PID
   namespace is, "/proc" only by the forked child; a failed call is the last
   one and its process exits 1 without exec; in attach mode there is none. *)
C8_MountRemediation ==
    /\ opt.attachpid # 0 => mounts = <<>>
    /\ mounts # <<>> =>
          LET p == mounts[1].by IN
          /\ opt.attachpid = 0
          /\ Truthy(BitAnd(flags[p], CLONE_NEWNS))
          /\ Len(unshares) = 1 /\ unshares[1].ok /\ unshares[1].by = "parent"
          /\ PastFork
          /\ p = (IF dofork["parent"] THEN "child" ELSE "parent")
          /\ \A i \in 1..Len(mounts) : mounts[i].by = p
          /\ Len(mounts) <= Len(ExpectedMounts(p))
          /\ MountTargets = SubSeq(ExpectedMounts(p), 1, Len(mounts))
          /\ \A i \in 1..(Len(mounts) - 1) : mounts[i].ok
          /\ ~mounts[Len(mounts)].ok =>
                (pc[p] = "done" /\ exitStatus[p] = 1 /\ p \notin execd)
          /\ \A i \in 1..Len(mounts) :
                mounts[i].target = "/proc" => (p = "child" /\ unshares[1].by # p)
    /\ \A p \in Procs :
          (pc[p] \in {"sched", "exec", "target"} \/ p \in execd) =>
              IF opt.attachpid = 0 /\ Truthy(BitAnd(flags[p], CLONE_NEWNS))
              THEN MountTargets = ExpectedMounts(p)
              ELSE mounts = <<>>

C8_Witness ==
    /\ "child" \in execd
    /\ MountTargets = <<"/", "/sys", "/proc">>
    /\ \A i \in 1..Len(mounts) : mounts[i].ok /\ mounts[i].by = "child"

(* C9: in attach mode a failure to open or join a namespace other than the
   mount namespace ends attach at that kind: no later kind is attempted and
   the launcher exits 1 without fork, PID report, cgroup join or exec. *)
C9_NonMountFailureFatal ==
    \A k \in ns.failed \ {"mnt"} :
        /\ ns.i = NsIndex(k)
        /\ \A j \in ns.same \cup ns.opened \cup ns.failed : NsIndex(j) <= NsIndex(k)
        /\ pc["parent"] = "done" /\ exitStatus["parent"] = 1
        /\ forkCalls = 0 /\ ~Forked
        /\ out = <<>>
        /\ cg.by = "none"
        /\ execd = {}

C9_Witness ==
    /\ opt.printpid
    /\ ns.same = {"net"} /\ ns.failed = {"pid"} /\ ns.opened = {"pid"}
    /\ pc["parent"] = "done"

(* C10: in attach mode a namespace whose identity is the launcher's own is
   neither opened nor joined and its kind is absent from the flags attach
   returns; when all four are the launcher's own, attach joins nothing and
   returns 0, so only -d as a group leader forks and no mount() is called. *)
C10_SameNamespaceSkipped ==
    /\ ns.same \cap (ns.opened \cup ns.joined \cup ns.failed) = {}
    /\ (SetupOk /\ opt.attachpid # 0) =>
          /\ \A k \in ns.same : BitAnd(flags["parent"], NsType(k)) = Zero
          /\ ns.same = NsNames =>
                /\ flags["parent"] = Zero
                /\ ns.opened = {} /\ ns.joined = {}
                /\ fds["parent"] \subseteq InheritedFds
                /\ forkCalls = 1 => (opt.detachtty /\ startLeader)
                /\ mounts = <<>>

C10_Witness ==
    /\ opt.attachpid # 0
    /\ ns.same = NsNames
    /\ "parent" \in execd
    /\ forkCalls = 0

(* C11: exactly one namespace mode runs.  With -a only attach runs: unshare
   is never called and the flags main goes on with are the ones attach
   returns, whatever -m -n -P -u were given.  Without -a only unshare runs,
   once, and no namespace is opened or joined.  The flags passed to unshare
   hold the mount namespace whenever -n or -P was given, and not for -u
   alone. *)
C11_OneNamespaceMode ==
    /\ opt.attachpid # 0 =>
          /\ unshares = <<>>
          /\ SetupOk =>
                flags["parent"] = UNION { NsType(k) : k \in ns.joined }
    /\ opt.attachpid = 0 =>
          /\ ns.i = 1 /\ ns.same = {} /\ ns.opened = {} /\ ns.failed = {}
          /\ ns.chroot = "none" /\ ns.chdir = "none"
          /\ Len(unshares) <= 1
          /\ pc["parent"] \notin {"closefds", "unshare"} => Len(unshares) = 1
          /\ \A i \in 1..Len(unshares) :
                /\ unshares[i].by = "parent"
                /\ ({"n", "P"} \cap opt.nsopts # {}) =>
                      Truthy(BitAnd(unshares[i].flags, CLONE_NEWNS))
                /\ opt.nsopts = {"u"} => unshares[i].flags = CLONE_NEWUTS
                /\ \A o \in opt.nsopts :
                      BitAnd(unshares[i].flags, OptFlag(o)) = OptFlag(o)

C11_Witness ==
    /\ opt.attachpid # 0 /\ opt.nsopts = {"n", "P"}
    /\ ns.same = {"net", "pid", "mnt"} /\ ns.joined = {"uts"}
    /\ flags["parent"] = CLONE_NEWUTS
    /\ "parent" \in execd
    /\ unshares = <<>>

(* C12: a cgroup join that got past validation exits 1 iff no controller
   took the pid: it succeeds when at least one tasks file accepted the pid
   written to it. *)
C12_FailsIffNoneAccepted ==
    cg.by # "none" =>
        ((pc[cg.by] = "done" /\ exitStatus[cg.by] = 1 /\ fatal[cg.by] = "cgroup")
            <=> cg.written = {})

(* a group name holding a character that is neither alphanumeric nor '/' *)
BadGroup ==
    \E i \in 1..Len(opt.cgrouparg) :
        opt.cgrouparg[i] \notin Alnum /\ opt.cgrouparg[i] # "/"

(* C13: with such a name given to -g, no tasks file is ever opened or
   written, no mount() is made, the scheduler is not set and nothing is
   exec'd: the process that reaches the cgroup join exits 1 in validate.
   A name of alphanumerics and '/' is never rejected by validate. *)
C13_BadGroupRejectedFirst ==
    /\ BadGroup =>
          /\ cg.by = "none" /\ cg.opened = {} /\ cg.written = {}
          /\ mounts = <<>> /\ sched = <<>> /\ execd = {}
          /\ \A p \in Procs :
                /\ pc[p] \notin {"mount", "mountsys", "mountproc", "sched",
                                 "exec", "target"}
                /\ (pc[p] = "done" /\ ~(p = "parent" /\ Forked)) =>
                      exitStatus[p] = 1
                /\ (pc[p] = "done" /\ p = (IF Forked THEN "child" ELSE "parent")
                      /\ PastFork /\ fatal["parent"] # "fork") =>
                      fatal[p] = "validate"
    /\ ~BadGroup => \A p \in Procs : fatal[p] # "validate"

C13_Witness ==
    /\ BadGroup
    /\ Forked /\ fatal["child"] = "validate" /\ exitStatus["child"] = 1
    /\ flags["child"] = BitOr(CLONE_NEWPID, CLONE_NEWNS)

(* a valid name passes validate and reaches the tasks files *)
C13_WitnessValid ==
    /\ opt.cgrouparg = <<"a", "/", "1">>
    /\ cg.by = "parent" /\ cg.opened # {}

(* C14: with -r N, N non-zero, a process that gets past the scheduling step
   has been put into SCHED_RR with priority N, every sched_setscheduler call
   is made with priority N, and a failed call exits 1 without exec; with
   rtprio 0 sched_setscheduler is never called. *)
C14_PriorityIsRtprio ==
    /\ opt.rtprio = 0 => sched = <<>>
    /\ \A i \in 1..Len(sched) :
          /\ sched[i].prio = opt.rtprio
          /\ ~sched[i].ok =>
                (pc[sched[i].by] = "done" /\ exitStatus[sched[i].by] = 1
                    /\ sched[i].by \notin execd)
    /\ \A p \in Procs :
          (opt.rtprio # 0 /\ pc[p] \in {"exec", "target"}) =>
              \E i \in 1..Len(sched) :
                  sched[i].by = p /\ sched[i].ok /\ sched[i].prio = opt.rtprio
    /\ \A p \in Procs : fatal[p] # "crash"

(* the process that goes on to the command: the child after a fork *)
Continuing == IF Forked THEN "child" ELSE "parent"

(* C16: after a fork the parent only reports, waits (when the PID namespace
   is in the flags) and exits: it never joins a cgroup, mounts, sets the
   scheduler or execs.  The cgroup join is made after the fork decision by
   the continuing process, which writes its own pid to the tasks files. *)
C16_ParentOnlyReportsAndWaits ==
    /\ Forked =>
          /\ pc["parent"] \in {"preport", "pwait", "done"}
          /\ "parent" \notin execd
          /\ cg.by # "parent"
          /\ \A i \in 1..Len(mounts) : mounts[i].by # "parent"
          /\ \A i \in 1..Len(sched) : sched[i].by # "parent"
          /\ (pc["parent"] = "pwait" /\ ~HasPidNs("parent")) => ENABLED ParentWait("parent")
    /\ cg.by # "none" =>
          /\ PastFork
          /\ cg.by = Continuing
          /\ dofork["parent"] => Forked
          /\ \A w \in cg.written :
                w.pid = (IF cg.by = "child" /\ opt.attachpid = 0 /\ HasPidNs("child")
                         THEN 1 ELSE pidOf[cg.by])

C16_Witness ==
    /\ Forked /\ ~HasPidNs("child")
    /\ cg.by = "child" /\ cg.written # {}
    /\ \A w \in cg.written : w.pid = pidOf["child"] /\ w.pid # pidOf["parent"]
    /\ "child" \in execd
    /\ pc["parent"] = "done"

(* C19: with -c, the process that execs the command has no descriptor above
   2 open at that moment. *)
C19_NoFdAbove2AtExec ==
    \A p \in Procs :
        (opt.closefds /\ pc[p] = "target") => fds[p] \subseteq {0, 1, 2}

(* C20: the assertion of line 283 never fails: once the fork decision is
   made, a process with -p and dofork = 0 has no PID namespace in its flags,
   in create mode and for every flag set attach returns; no process aborts. *)
C20_AssertionHolds ==
    \A p \in Procs :
        /\ (opt.printpid /\ ~dofork[p]
              /\ pc[p] \notin {"none", "closefds", "unshare", "attach", "chdir", "decide"}
              /\ fatal[p] \notin {"unshare", "attach"}) => ~HasPidNs(p)
        /\ fatal[p] # "assert"
        /\ exitStatus[p] # SIGABRT

C20_Witness ==
    /\ opt.printpid /\ opt.attachpid # 0
    /\ ~dofork["parent"]
    /\ ns.joined = {"net", "uts", "mnt"} /\ ns.same = {"pid"}
    /\ pc["parent"] = "cgroup"
    /\ Len(out) = 1 /\ out[1].pid = pidOf["parent"]

----------------------------------------------------------------------------
(* piper: vocabulary *)

PiperForked == piper.kpid # 0
ChainDone == PiperForked /\ piper.kpc = "done"
Wrapped == piper.argv # <<>> /\ Contains(piper.argv[1], <<"-", "m">>)

(* C15: in piper, once the forked command chain has terminated without ever
   having written to the pipe, the caller is at its read, the read cannot
   return, and so the caller has neither reached wait nor exited. *)
C15_SilentChainHangsCaller ==
    (ChainDone /\ piper.written = 0) =>
        /\ piper.cpc = "read"
        /\ ~ReadReady(piper)
        /\ ~ENABLED PCallerRead
        /\ piper.cstatus = NotExited

C15_Witness ==
    /\ ChainDone
    /\ piper.written = 0
    /\ piper.kstatus = 0
    /\ piper.image = "quiet"
    /\ piper.cpc = "read"

(* C17: in piper, the pipe exists before the fork, the child has closed the
   read end before it execs, and the parent has closed the write end before
   it reads: while the parent is at its read, it does not hold the write end. *)
C17_ParentClosedWriteEndAtRead ==
    /\ PiperForked => (piper.fdr >= 0 /\ piper.fdw >= 0)
    /\ (PiperForked /\ piper.kpc \notin {"close"}) => piper.fdr \notin piper.kfds
    /\ piper.cpc = "read" => piper.fdw \notin piper.cfds

(* C18: when piper's first argument contains -m, the child execs
   ./mnexec -cnPu -w <write-fd> <original arguments>; the launcher closes the
   descriptors above 2 (the pipe's write end among them) and runs the target,
   whose write to the pipe descriptor fails, and nothing reaches the pipe. *)
C18_WrapClosesPipeThenRunsTarget ==
    (Wrapped /\ ChainDone /\ piper.image # "none") =>
        /\ piper.cmd = BaseCmd(piper.argv, piper.fdw)
        /\ piper.mnclosed
        /\ piper.image = "test" => piper.wres = "EBADF"
        /\ piper.written = 0

====
